---- MODULE Spec2Model ----
(***************************************************************************)
(* State-machine model of src/src/app.py: the in-memory activities         *)
(* registry, the request handlers that change it, the dirty flag and its   *)
(* lock, the background saver thread and the lifespan shutdown path.       *)
(*                                                                         *)
(* The handlers are plain `def` endpoints, which the framework runs on     *)
(* worker threads: one step of the model is one operation that the         *)
(* interpreter executes without another thread interleaving (a membership  *)
(* test, len, append, remove, a lock acquisition, one turn of the deepcopy  *)
(* loop, ...).  Handlers start only between startup and the stop signal;   *)
(* a handler that is running when the signal is set runs on.               *)
(*                                                                         *)
(* Spec is the whole program under MaxCalls concurrent calls.  SpecSaver   *)
(* is the same program under MaxSaverCalls calls, and SpecSequential the   *)
(* request handlers called one after the other.  SpecSaverFair is          *)
(* SpecSaver under fair scheduling of the threads, and SpecServingFair the *)
(* program before any stop signal, under fair scheduling and a fair lock.  *)
(***************************************************************************)
EXTENDS Integers, Sequences, FiniteSets, TLC

\* ------------------------------------------------------------------ bounds
\* Number of request-handler invocations in one behaviour.
MaxCalls == 2

\* Number of request-handler invocations in the behaviours of SpecSaver.
MaxSaverCalls == 1

\* max_participants of the capped activity in the loaded document.
ChessMax == 1

Calls == 1..MaxCalls

\* -------------------------------------------------------------- input sets
\* The activities in the order in which the registry dict holds them.
ActivityOrder == <<"Chess Club", "Art Club">>

ActivityNames == {ActivityOrder[k] : k \in 1..Len(ActivityOrder)}

RequestNames == ActivityNames \cup {"Unknown Club"}

Emails == {"a@x.com", "b@x.com"}

\* The document load_activities() reads at startup: one activity with a
\* max_participants field, one without (activity.get returns None for it).
InitialRegistry ==
    [n \in ActivityNames |->
        IF n = "Chess Club"
        THEN [max_participants |-> ChessMax, participants |-> <<>>]
        ELSE [participants |-> <<"a@x.com">>]]

\* The two threads that call save_activities_to_disk.
SaveThread == "save_thread"

MainThread == "main"

Flushers == {SaveThread, MainThread}

VARIABLES
    activities,        \* the registry: name -> activity dict
    activities_dirty,  \* the dirty flag
    activities_lock,   \* TRUE while the (non-owned) threading.Lock is held
    shutdown_event,    \* threading.Event flag
    disk,              \* content of activities.json
    pc,                \* per call: position in its handler
    req,               \* per call: op, activity_name, email
    result,            \* per call: outcome returned to the client
    pre,               \* per call: participants of the named activity at entry
    save_pc,           \* per flusher: position in save_activities_to_disk
    snapshot,          \* per flusher: activities_snapshot local (while being built, too)
    copy_at,           \* per flusher: position of the deepcopy in the registry
    copy_seen,         \* history, per flusher: the registries there have been during its deepcopy
    sched_pc,          \* position of periodic_save
    life_pc,           \* position of lifespan
    write_failed,      \* history: some storage write raised OSError
    quiet_stop,        \* history: no handler was running when the stop signal was set
    flush_hist         \* history: flush calls/returns since the last handler step

vars == <<activities, activities_dirty, activities_lock, shutdown_event, disk,
          pc, req, result, pre, save_pc, snapshot, copy_at, copy_seen, sched_pc,
          life_pc, write_failed, quiet_stop, flush_hist>>

storeVars == <<activities, pc, req, result, pre>>

copyVars == <<disk, save_pc, snapshot, copy_at, write_failed>>

flushVars == <<copyVars, copy_seen>>

lifeVars == <<shutdown_event, sched_pc, life_pc, quiet_stop>>

\* ----------------------------------------------------------------- helpers
\* dict.get(key): the value as a one-element set, the empty set for None.
DictGet(d, key) == IF key \in DOMAIN d THEN {d[key]} ELSE {}

\* `x in list`
Contains(s, x) == \E i \in 1..Len(s) : s[i] = x

\* list.pop() in place of list.remove(x): drops the last element, whatever it is.
RemoveLast(s, x) == SubSeq(s, 1, Len(s) - 1)

\* list.remove(x): drops the first occurrence of x (x is known to be present).
RemoveFirst(s, x) ==
    LET i == CHOOSE k \in 1..Len(s) : s[k] = x /\ \A j \in 1..(k - 1) : s[j] # x
    IN  [k \in 1..(Len(s) - 1) |-> IF k < i THEN s[k] ELSE s[k + 1]]

Participants(reg, name) == reg[name].participants

WithParticipants(reg, name, ps) == [reg EXCEPT ![name].participants = ps]

NoRequest == [op |-> "none", activity_name |-> "", email |-> ""]

\* A handler step resets the record of flush calls "in a row".
HandlerStep == flush_hist' = <<>>

\* The handler returns `outcome` to the client.
Return(c, outcome) ==
    /\ pc' = [pc EXCEPT ![c] = "done"]
    /\ result' = [result EXCEPT ![c] = outcome]

Goto(c, label) ==
    /\ pc' = [pc EXCEPT ![c] = label]
    /\ UNCHANGED result

\* A handler has written the registry: every deepcopy under way has one more
\* registry to its history.
RegistryWritten ==
    copy_seen' = [t \in Flushers |->
                    IF save_pc[t] = "copy" THEN copy_seen[t] \cup {activities'} ELSE copy_seen[t]]

\* Requests are served between lifespan startup and the stop signal.
Serving == life_pc = "serving"

\* ------------------------------------------------------ signup_for_activity
\* Lines 119-123: the request arrives and the activity is looked up.
SignupCheckExists(c, name, email) ==
    /\ Serving
    /\ pc[c] = "idle"
    /\ \A d \in Calls : d < c => pc[d] # "idle"
    /\ req' = [req EXCEPT ![c] = [op |-> "signup", activity_name |-> name, email |-> email]]
    /\ IF name \notin DOMAIN activities
       THEN /\ Return(c, "NotFound")
            /\ pre' = pre
       ELSE /\ Goto(c, "s_dup")
            /\ pre' = [pre EXCEPT ![c] = Participants(activities, name)]
    /\ HandlerStep
    /\ UNCHANGED <<activities, activities_dirty, activities_lock, flushVars, lifeVars>>

\* The handler without the membership test of line 126.
SignupSkipsDuplicateTest(c) ==
    /\ pc[c] = "s_dup"
    /\ Goto(c, "s_cap")
    /\ HandlerStep
    /\ UNCHANGED <<activities, req, pre, activities_dirty, activities_lock, flushVars, lifeVars>>

\* Lines 126-130: `if email in activity["participants"]`.
SignupCheckDuplicate(c) ==
    /\ pc[c] = "s_dup"
    /\ IF Contains(Participants(activities, req[c].activity_name), req[c].email)
       THEN Return(c, "AlreadyEnrolled")
       ELSE Goto(c, "s_cap")
    /\ HandlerStep
    /\ UNCHANGED <<activities, req, pre, activities_dirty, activities_lock, flushVars, lifeVars>>

\* The capacity test with > in place of >=.
AtCapacityOffByOne(activity) ==
    LET max_participants == DictGet(activity, "max_participants")
        current_count == Len(activity.participants)
    IN  /\ max_participants # {}
        /\ \E m \in max_participants : current_count > m

\* Lines 133-140: the capacity test against len(participants).
AtCapacity(activity) ==
    LET max_participants == DictGet(activity, "max_participants")
        current_count == Len(activity.participants)
    IN  /\ max_participants # {}
        /\ \E m \in max_participants : current_count >= m

SignupCheckCapacity(c) ==
    /\ pc[c] = "s_cap"
    /\ IF AtCapacity(activities[req[c].activity_name])
       THEN Return(c, "CapacityExceeded")
       ELSE Goto(c, "s_append")
    /\ HandlerStep
    /\ UNCHANGED <<activities, req, pre, activities_dirty, activities_lock, flushVars, lifeVars>>

\* Line 142: activity["participants"].append(email).
SignupAppend(c) ==
    /\ pc[c] = "s_append"
    /\ activities' = WithParticipants(activities, req[c].activity_name,
                        Append(Participants(activities, req[c].activity_name), req[c].email))
    /\ Goto(c, "m_lock")
    /\ RegistryWritten
    /\ HandlerStep
    /\ UNCHANGED <<req, pre, activities_dirty, activities_lock, copyVars, lifeVars>>

\* ------------------------------------------------- unregister_from_activity
\* Lines 151-155.
UnregisterCheckExists(c, name, email) ==
    /\ Serving
    /\ pc[c] = "idle"
    /\ \A d \in Calls : d < c => pc[d] # "idle"
    /\ req' = [req EXCEPT ![c] = [op |-> "unregister", activity_name |-> name, email |-> email]]
    /\ IF name \notin DOMAIN activities
       THEN /\ Return(c, "NotFound")
            /\ pre' = pre
       ELSE /\ Goto(c, "u_in")
            /\ pre' = [pre EXCEPT ![c] = Participants(activities, name)]
    /\ HandlerStep
    /\ UNCHANGED <<activities, activities_dirty, activities_lock, flushVars, lifeVars>>

\* Lines 158-162: `if email not in activity["participants"]`.
UnregisterCheckEnrolled(c) ==
    /\ pc[c] = "u_in"
    /\ IF ~Contains(Participants(activities, req[c].activity_name), req[c].email)
       THEN Return(c, "NotEnrolled")
       ELSE Goto(c, "u_remove")
    /\ HandlerStep
    /\ UNCHANGED <<activities, req, pre, activities_dirty, activities_lock, flushVars, lifeVars>>

\* Line 165: list.remove raises ValueError when the email is no longer there;
\* nothing catches it, so the request ends in an unhandled error.
UnregisterRemove(c) ==
    /\ pc[c] = "u_remove"
    /\ IF Contains(Participants(activities, req[c].activity_name), req[c].email)
       THEN /\ activities' = WithParticipants(activities, req[c].activity_name,
                                RemoveFirst(Participants(activities, req[c].activity_name), req[c].email))
            /\ Goto(c, "m_lock")
       ELSE /\ activities' = activities
            /\ Return(c, "ValueError")
    /\ RegistryWritten
    /\ HandlerStep
    /\ UNCHANGED <<req, pre, activities_dirty, activities_lock, copyVars, lifeVars>>

\* ---------------------------------------------------- mark_activities_dirty
\* Line 63: `with activities_lock:` blocks until the lock is free.
MarkDirtyAcquire(c) ==
    /\ pc[c] = "m_lock"
    /\ ~activities_lock
    /\ activities_lock' = TRUE
    /\ Goto(c, "m_set")
    /\ HandlerStep
    /\ UNCHANGED <<activities, req, pre, activities_dirty, flushVars, lifeVars>>

\* mark_activities_dirty with an acquire() that is never released.
MarkDirtyKeepsLock(c) ==
    /\ pc[c] = "m_set"
    /\ activities_dirty' = TRUE
    /\ activities_lock' = TRUE
    /\ Return(c, "Success")
    /\ HandlerStep
    /\ UNCHANGED <<activities, req, pre, flushVars, lifeVars>>

\* A handler that returns without line 64: the flag is left as it was.
MarkDirtyForgets(c) ==
    /\ pc[c] = "m_set"
    /\ activities_dirty' = activities_dirty
    /\ activities_lock' = FALSE
    /\ Return(c, "Success")
    /\ HandlerStep
    /\ UNCHANGED <<activities, req, pre, flushVars, lifeVars>>

\* Line 64, the release of the lock, and the handler's return (144 / 167).
MarkDirtySet(c) ==
    /\ pc[c] = "m_set"
    /\ activities_dirty' = TRUE
    /\ activities_lock' = FALSE
    /\ Return(c, "Success")
    /\ HandlerStep
    /\ UNCHANGED <<activities, req, pre, flushVars, lifeVars>>

\* ----------------------------------------------------------- get_activities
\* Line 112 returns the registry object itself: what the caller holds is the
\* live dict, so its contents are whatever the registry holds when it is read.
ReturnedValue(c) == activities

GetActivities(c) ==
    /\ Serving
    /\ pc[c] = "idle"
    /\ \A d \in Calls : d < c => pc[d] # "idle"
    /\ req' = [req EXCEPT ![c] = [op |-> "get", activity_name |-> "", email |-> ""]]
    /\ Goto(c, "g_held")
    /\ UNCHANGED <<activities, pre, activities_dirty, activities_lock,
                   flushVars, lifeVars, flush_hist>>

\* The framework encodes the returned object into the response body.
EncodeResponse(c) ==
    /\ pc[c] = "g_held"
    /\ Return(c, "Success")
    /\ UNCHANGED <<activities, req, pre, activities_dirty, activities_lock,
                   flushVars, lifeVars, flush_hist>>

signup_for_activity(c) ==
    \/ \E name \in RequestNames, email \in Emails : SignupCheckExists(c, name, email)
    \/ SignupCheckDuplicate(c)
    \/ SignupCheckCapacity(c)
    \/ SignupAppend(c)

unregister_from_activity(c) ==
    \/ \E name \in RequestNames, email \in Emails : UnregisterCheckExists(c, name, email)
    \/ UnregisterCheckEnrolled(c)
    \/ UnregisterRemove(c)

mark_activities_dirty(c) ==
    \/ MarkDirtyAcquire(c)
    \/ MarkDirtySet(c)

get_activities(c) ==
    \/ GetActivities(c)
    \/ EncodeResponse(c)

\* The worker threads serving the calls of S.
Handlers(S) ==
    \E c \in S :
        \/ signup_for_activity(c)
        \/ unregister_from_activity(c)
        \/ mark_activities_dirty(c)
        \/ get_activities(c)

\* -------------------------------------------------- save_activities_to_disk
\* Record of flush calls and returns, the last four events kept.
Logged(h, e) == IF Len(h) < 4 THEN Append(h, e) ELSE Append(Tail(h), e)

\* The call itself (line 74 or line 91): the flusher enters the function.
CallSave(t) ==
    /\ save_pc' = [save_pc EXCEPT ![t] = "lock1"]
    /\ flush_hist' = Logged(flush_hist, [e |-> "call", t |-> t])

\* The copy before anything is copied into it: the lists are empty.  (The
\* fields other than participants never change, so copying them earlier or
\* later gives the same.)
EmptyCopy == [n \in ActivityNames |-> [InitialRegistry[n] EXCEPT !.participants = <<>>]]

CopyStart == [k |-> 1, i |-> 1]

\* The function returns: its locals are gone.
ReturnSave(t, how) ==
    /\ save_pc' = [save_pc EXCEPT ![t] = "idle"]
    /\ snapshot' = [snapshot EXCEPT ![t] = EmptyCopy]
    /\ flush_hist' = Logged(flush_hist, [e |-> how, t |-> t])

\* The scheduler is back in its loop when its flush returns; the lifespan
\* generator ends after the final flush.
AfterSave(t) ==
    IF t = SaveThread
    THEN sched_pc' = "loop" /\ UNCHANGED life_pc
    ELSE life_pc' = "exited" /\ UNCHANGED sched_pc

\* Line 40: `with activities_lock:`.
SaveAcquire(t) ==
    /\ save_pc[t] = "lock1"
    /\ ~activities_lock
    /\ activities_lock' = TRUE
    /\ save_pc' = [save_pc EXCEPT ![t] = "check"]
    /\ UNCHANGED <<storeVars, activities_dirty, disk, snapshot, copy_at, copy_seen, write_failed,
                   lifeVars, flush_hist>>

\* The test of the dirty flag left out: every flush writes.
NothingToSaveNeverTrue == FALSE

\* Line 41: the test of the dirty flag.

NothingToSave == ~activities_dirty

\* Lines 41-42: not dirty, return (the lock is released on the way out).
SaveNothingToDo(t) ==
    /\ save_pc[t] = "check"
    /\ NothingToSave
    /\ activities_lock' = FALSE
    /\ ReturnSave(t, "noop")
    /\ AfterSave(t)
    /\ UNCHANGED <<storeVars, activities_dirty, disk, copy_at, copy_seen, write_failed,
                   shutdown_event, quiet_stop>>

\* Lines 41-45: dirty, so copy.deepcopy(activities) starts.  The lock is
\* held, but the handlers change the lists without it, so the copy, a loop of
\* the interpreter over the activities and over each list, runs interleaved
\* with their appends and removes.
SaveStartCopy(t) ==
    /\ save_pc[t] = "check"
    /\ ~NothingToSave
    /\ save_pc' = [save_pc EXCEPT ![t] = "copy"]
    /\ copy_seen' = [copy_seen EXCEPT ![t] = {activities}]
    /\ UNCHANGED <<storeVars, activities_dirty, activities_lock, disk, snapshot,
                   copy_at, write_failed, lifeVars, flush_hist>>

\* Line 45, one turn of the loop over a participants list: the list iterator
\* yields the element at its index in the list as it is now.
SaveCopyElement(t) ==
    LET n == ActivityOrder[copy_at[t].k]
        live == Participants(activities, n)
    IN  /\ save_pc[t] = "copy"
        /\ copy_at[t].i <= Len(live)
        /\ snapshot' = [snapshot EXCEPT ![t] =
                WithParticipants(@, n, Append(Participants(@, n), live[copy_at[t].i]))]
        /\ copy_at' = [copy_at EXCEPT ![t].i = @ + 1]
        /\ UNCHANGED <<storeVars, copy_seen, activities_dirty, activities_lock, disk, save_pc,
                       write_failed, lifeVars, flush_hist>>

\* Line 45, the list iterator is exhausted: on to the next activity.
SaveCopyNextList(t) ==
    /\ save_pc[t] = "copy"
    /\ copy_at[t].i > Len(Participants(activities, ActivityOrder[copy_at[t].k]))
    /\ copy_at[t].k < Len(ActivityOrder)
    /\ copy_at' = [copy_at EXCEPT ![t] = [k |-> @.k + 1, i |-> 1]]
    /\ UNCHANGED <<storeVars, copy_seen, activities_dirty, activities_lock, disk, save_pc,
                   snapshot, write_failed, lifeVars, flush_hist>>

\* The write placed inside the `with` block: the copy ends, the lock stays held.
SaveSnapshotKeepsLock(t) ==
    /\ save_pc[t] = "copy"
    /\ copy_at[t].i > Len(Participants(activities, ActivityOrder[copy_at[t].k]))
    /\ copy_at[t].k = Len(ActivityOrder)
    /\ copy_at' = [copy_at EXCEPT ![t] = CopyStart]
    /\ copy_seen' = [copy_seen EXCEPT ![t] = {}]
    /\ save_pc' = [save_pc EXCEPT ![t] = "open"]
    /\ UNCHANGED <<storeVars, activities_dirty, activities_lock, disk, snapshot,
                   write_failed, lifeVars, flush_hist>>

\* Line 45 done with the last list; the `with` block ends and releases the lock.
SaveSnapshot(t) ==
    /\ save_pc[t] = "copy"
    /\ copy_at[t].i > Len(Participants(activities, ActivityOrder[copy_at[t].k]))
    /\ copy_at[t].k = Len(ActivityOrder)
    /\ copy_at' = [copy_at EXCEPT ![t] = CopyStart]
    /\ copy_seen' = [copy_seen EXCEPT ![t] = {}]
    /\ activities_lock' = FALSE
    /\ save_pc' = [save_pc EXCEPT ![t] = "open"]
    /\ UNCHANGED <<storeVars, activities_dirty, disk, snapshot, write_failed,
                   lifeVars, flush_hist>>

\* Line 52: open(activities_file, 'w') truncates the file.
SaveOpen(t) ==
    /\ save_pc[t] = "open"
    /\ disk' = [state |-> "truncated", doc |-> InitialRegistry]
    /\ save_pc' = [save_pc EXCEPT ![t] = "dump"]
    /\ UNCHANGED <<storeVars, activities_dirty, activities_lock, snapshot,
                   copy_at, copy_seen, write_failed, lifeVars, flush_hist>>

\* Line 52 raising OSError: lines 56-58 print it and the function returns.
SaveOpenFails(t) ==
    /\ save_pc[t] = "open"
    /\ write_failed' = TRUE
    /\ ReturnSave(t, "failed")
    /\ AfterSave(t)
    /\ UNCHANGED <<storeVars, activities_dirty, activities_lock, disk, copy_at, copy_seen,
                   shutdown_event, quiet_stop>>

\* What the file holds after this flusher's json.dump and close.  Written
\* into the file it truncated, the document is the snapshot; when the other
\* flusher wrote into the same file in between, the two writes overlap and
\* the file holds either this snapshot or a mix that is no document.
Written(t) ==
    IF disk.state = "truncated"
    THEN {[state |-> "ok", doc |-> snapshot[t]]}
    ELSE {[state |-> "ok", doc |-> snapshot[t]],
          [state |-> "corrupt", doc |-> InitialRegistry]}

\* Line 53: json.dump(activities_snapshot, f) and the close of the file.
SaveDump(t) ==
    /\ save_pc[t] = "dump"
    /\ disk' \in Written(t)
    /\ save_pc' = [save_pc EXCEPT ![t] = "lock2"]
    /\ UNCHANGED <<storeVars, activities_dirty, activities_lock, snapshot,
                   copy_at, copy_seen, write_failed, lifeVars, flush_hist>>

\* Line 53 raising OSError part-way: the file is left incomplete.
SaveDumpFails(t) ==
    /\ save_pc[t] = "dump"
    /\ disk' = [state |-> "corrupt", doc |-> InitialRegistry]
    /\ write_failed' = TRUE
    /\ ReturnSave(t, "failed")
    /\ AfterSave(t)
    /\ UNCHANGED <<storeVars, activities_dirty, activities_lock, copy_at, copy_seen,
                   shutdown_event, quiet_stop>>

\* Line 54: the lock is taken again.
SaveReacquire(t) ==
    /\ save_pc[t] = "lock2"
    /\ ~activities_lock
    /\ activities_lock' = TRUE
    /\ save_pc' = [save_pc EXCEPT ![t] = "clear"]
    /\ UNCHANGED <<storeVars, activities_dirty, disk, snapshot, copy_at, copy_seen, write_failed,
                   lifeVars, flush_hist>>

\* Line 55: activities_dirty = False, whatever happened since the snapshot.
SaveClear(t) ==
    /\ save_pc[t] = "clear"
    /\ activities_dirty' = FALSE
    /\ activities_lock' = FALSE
    /\ ReturnSave(t, "wrote")
    /\ AfterSave(t)
    /\ UNCHANGED <<storeVars, disk, copy_at, copy_seen, write_failed, shutdown_event, quiet_stop>>

save_activities_to_disk(t) ==
    \/ SaveAcquire(t)
    \/ SaveNothingToDo(t)
    \/ SaveStartCopy(t)
    \/ SaveCopyElement(t)
    \/ SaveCopyNextList(t)
    \/ SaveSnapshot(t)
    \/ SaveOpen(t)
    \/ SaveOpenFails(t)
    \/ SaveDump(t)
    \/ SaveDumpFails(t)
    \/ SaveReacquire(t)
    \/ SaveClear(t)

\* ------------------------------------------------------------ periodic_save
\* Line 68: the loop condition.
SchedLoopTest ==
    /\ sched_pc = "loop"
    /\ sched_pc' = IF shutdown_event THEN "stopped" ELSE "wait"
    /\ UNCHANGED <<storeVars, activities_dirty, activities_lock, flushVars,
                   shutdown_event, life_pc, quiet_stop, flush_hist>>

\* Lines 70-73: wait returns True when the event is set, and the loop breaks.
SchedWaitSignalled ==
    /\ sched_pc = "wait"
    /\ shutdown_event
    /\ sched_pc' = "stopped"
    /\ UNCHANGED <<storeVars, activities_dirty, activities_lock, flushVars,
                   shutdown_event, life_pc, quiet_stop, flush_hist>>

\* A sleep in place of the wait: it ends whether or not the event is set.
SchedSleep ==
    /\ sched_pc = "wait"
    /\ sched_pc' = "timed_out"
    /\ UNCHANGED <<storeVars, activities_dirty, activities_lock, flushVars,
                   shutdown_event, life_pc, quiet_stop, flush_hist>>

\* Line 70: the wait times out after SAVE_INTERVAL_SECONDS and returns False.
SchedWaitTimeout ==
    /\ sched_pc = "wait"
    /\ ~shutdown_event
    /\ sched_pc' = "timed_out"
    /\ UNCHANGED <<storeVars, activities_dirty, activities_lock, flushVars,
                   shutdown_event, life_pc, quiet_stop, flush_hist>>

\* Line 74: the call of save_activities_to_disk().
SchedCallSave ==
    /\ sched_pc = "timed_out"
    /\ sched_pc' = "saving"
    /\ CallSave(SaveThread)
    /\ UNCHANGED <<storeVars, activities_dirty, activities_lock, disk, snapshot,
                   copy_at, copy_seen, write_failed, shutdown_event, life_pc, quiet_stop>>

periodic_save ==
    \/ SchedLoopTest
    \/ SchedWaitSignalled
    \/ SchedWaitTimeout
    \/ SchedCallSave
    \/ save_activities_to_disk(SaveThread)

\* ----------------------------------------------------------------- lifespan
\* Lines 84-85: the background thread is created and started; then `yield`.
LifeStartup ==
    /\ life_pc = "startup"
    /\ life_pc' = "serving"
    /\ sched_pc' = "loop"
    /\ UNCHANGED <<storeVars, activities_dirty, activities_lock, flushVars,
                   shutdown_event, quiet_stop, flush_hist>>

\* Line 88: shutdown_event.set().
LifeSetStop ==
    /\ life_pc = "serving"
    /\ shutdown_event' = TRUE
    /\ quiet_stop' = (\A c \in Calls : pc[c] \in {"idle", "done"})
    /\ life_pc' = "join"
    /\ UNCHANGED <<storeVars, activities_dirty, activities_lock, flushVars,
                   sched_pc, flush_hist>>

\* Lines 89-90: join returns because the thread ended.
LifeJoined ==
    /\ life_pc = "join"
    /\ sched_pc = "stopped"
    /\ life_pc' = "call_save"
    /\ UNCHANGED <<storeVars, activities_dirty, activities_lock, flushVars,
                   shutdown_event, sched_pc, quiet_stop, flush_hist>>

\* A lifespan that leaves when the join gives up, without the final save.
LifeJoinTimeoutLeaves ==
    /\ life_pc = "join"
    /\ sched_pc # "stopped"
    /\ life_pc' = "exited"
    /\ UNCHANGED <<storeVars, activities_dirty, activities_lock, flushVars,
                   shutdown_event, sched_pc, quiet_stop, flush_hist>>

\* Lines 89-90: join gives up after SHUTDOWN_TIMEOUT_SECONDS.
LifeJoinTimeout ==
    /\ life_pc = "join"
    /\ sched_pc # "stopped"
    /\ life_pc' = "call_save"
    /\ UNCHANGED <<storeVars, activities_dirty, activities_lock, flushVars,
                   shutdown_event, sched_pc, quiet_stop, flush_hist>>

\* Line 91: the final save_activities_to_disk().
LifeCallSave ==
    /\ life_pc = "call_save"
    /\ life_pc' = "saving"
    /\ CallSave(MainThread)
    /\ UNCHANGED <<storeVars, activities_dirty, activities_lock, disk, snapshot,
                   copy_at, copy_seen, write_failed, shutdown_event, sched_pc, quiet_stop>>

lifespan ==
    \/ LifeStartup
    \/ LifeSetStop
    \/ LifeJoined
    \/ LifeJoinTimeout
    \/ LifeCallSave
    \/ save_activities_to_disk(MainThread)

Init ==
    /\ activities = InitialRegistry
    /\ activities_dirty = FALSE
    /\ activities_lock = FALSE
    /\ shutdown_event = FALSE
    /\ disk = [state |-> "ok", doc |-> InitialRegistry]
    /\ pc = [c \in Calls |-> "idle"]
    /\ req = [c \in Calls |-> NoRequest]
    /\ result = [c \in Calls |-> "pending"]
    /\ pre = [c \in Calls |-> <<>>]
    /\ save_pc = [t \in Flushers |-> "idle"]
    /\ snapshot = [t \in Flushers |-> EmptyCopy]
    /\ copy_at = [t \in Flushers |-> CopyStart]
    /\ copy_seen = [t \in Flushers |-> {}]
    /\ sched_pc = "not_started"
    /\ life_pc = "startup"
    /\ write_failed = FALSE
    /\ quiet_stop = FALSE
    /\ flush_hist = <<>>

\* The whole program: concurrent request handlers, the saver thread and the
\* lifespan of the application.
Next ==
    \/ Handlers(Calls)
    \/ periodic_save
    \/ lifespan

Spec == Init /\ [][Next]_vars

\* The saver thread and the lifespan with a lighter request load.
SaverNext ==
    \/ Handlers(1..MaxSaverCalls)
    \/ periodic_save
    \/ lifespan

SpecSaver == Init /\ [][SaverNext]_vars

\* One client that issues its requests one after the other: a call starts
\* only when no other call is running.
InFlight == {c \in Calls : pc[c] \notin {"idle", "done"}}

OneAtATime == Cardinality({c \in Calls : pc'[c] \notin {"idle", "done"}}) <= 1

SequentialNext ==
    \/ LifeStartup
    \/ (Handlers(Calls) /\ OneAtATime)

SpecSequential == Init /\ [][SequentialNext]_vars

\* The steps of a handler once its request has arrived (whether a request
\* arrives at all is up to the client).
HandlerContinues(c) ==
    \/ SignupCheckDuplicate(c)
    \/ SignupCheckCapacity(c)
    \/ SignupAppend(c)
    \/ UnregisterCheckEnrolled(c)
    \/ UnregisterRemove(c)
    \/ mark_activities_dirty(c)
    \/ EncodeResponse(c)

\* The steps of the lifespan other than the stop signal (whether the
\* application is ever shut down is up to the operator).
LifespanContinues ==
    \/ LifeStartup
    \/ LifeJoined
    \/ LifeJoinTimeout
    \/ LifeCallSave
    \/ save_activities_to_disk(MainThread)

\* Fair scheduling: every thread that can take a step eventually takes one.
\* A thread waiting for the lock can step only while the lock is free.
ThreadsRun(S) ==
    /\ \A c \in S : WF_vars(HandlerContinues(c))
    /\ WF_vars(periodic_save)
    /\ WF_vars(LifespanContinues)

\* A thread waiting for the lock gets it if the lock is free again and again
\* (the scheduler leaves it free for SAVE_INTERVAL_SECONDS at a time).
LockIsFair(S) ==
    /\ \A c \in S : SF_vars(MarkDirtyAcquire(c))
    /\ \A t \in Flushers : SF_vars(SaveAcquire(t) \/ SaveReacquire(t))

\* The application while it serves: startup, the handlers and the saver
\* thread, with no stop signal.
ServingNext ==
    \/ LifeStartup
    \/ Handlers(Calls)
    \/ SchedLoopTest
    \/ SchedWaitTimeout
    \/ SchedCallSave
    \/ save_activities_to_disk(SaveThread)

SpecServingFair == Init /\ [][ServingNext]_vars /\ ThreadsRun(Calls) /\ LockIsFair(Calls)

SpecSaverFair == SpecSaver /\ ThreadsRun(1..MaxSaverCalls)

\* ======================================================================
\* Properties
\* ======================================================================
Quiet == InFlight = {}

Roster(name) == Participants(activities, name)

Count(seq, x) == Cardinality({i \in 1..Len(seq) : seq[i] = x})

Distinct(seq) == \A i, j \in 1..Len(seq) : seq[i] = seq[j] => i = j

\* C1: capacity under concurrency. In every reachable state, every activity
\* that has a maximum holds at most that many (different) participants; and
\* when two enrolls of different participants into the capped, empty activity
\* have both returned, not both have succeeded.
CapacityNeverExceeded ==
    /\ \A n \in ActivityNames :
          \A m \in DictGet(activities[n], "max_participants") :
              Distinct(Roster(n)) => Len(Roster(n)) <= m
    /\ \A c, d \in Calls :
          (/\ c # d
           /\ req[c].op = "signup" /\ req[d].op = "signup"
           /\ req[c].activity_name = "Chess Club" /\ req[d].activity_name = "Chess Club"
           /\ req[c].email # req[d].email
           /\ pre[c] = <<>> /\ pre[d] = <<>>
           /\ ChessMax = 1
           /\ pc[c] = "done" /\ pc[d] = "done")
          => ~(result[c] = "Success" /\ result[d] = "Success")

\* C2: no duplicates. In every reachable state no participant occurs more
\* than once in the participant list of any activity.
NoDuplicateParticipants ==
    \A n \in ActivityNames : \A e \in Emails : Count(Roster(n), e) <= 1

\* C3: no lost update in the persistence handshake. Whenever the dirty flag
\* is clear, no flush is between its snapshot and its clearing of the flag and
\* no handler is between changing a roster and setting the flag, the stored
\* document equals the registry (stated for runs in which no write failed and
\* the saver thread is the only flusher so far).
FlushMidway(t) == save_pc[t] \in {"copy", "open", "dump", "lock2", "clear"}

MarkPending(c) == pc[c] \in {"m_lock", "m_set"}

Stored(reg) == disk.state = "ok" /\ disk.doc = reg

NoLostUpdate ==
    (/\ ~activities_dirty
     /\ \A t \in Flushers : ~FlushMidway(t)
     /\ \A c \in Calls : ~MarkPending(c)
     /\ ~write_failed
     /\ life_pc = "serving")
    => Stored(activities)

\* C4: durability on clean shutdown. Once lifespan has run its shutdown path
\* to the end, the saver thread has stopped, every storage write succeeded
\* and no handler was running when the stop signal was set, the stored
\* document (when the file holds one) equals the registry.
DurableAfterShutdown ==
    (/\ life_pc = "exited"
     /\ sched_pc = "stopped"
     /\ save_pc[SaveThread] = "idle"
     /\ ~write_failed
     /\ quiet_stop
     /\ disk.state = "ok")
    => disk.doc = activities

\* The handlers run with nothing interleaved (lines 119-144 and 151-167).
SerialSignup(reg, name, email) ==
    IF name \notin DOMAIN reg
    THEN [reg |-> reg, outcome |-> "NotFound"]
    ELSE IF Contains(Participants(reg, name), email)
    THEN [reg |-> reg, outcome |-> "AlreadyEnrolled"]
    ELSE IF AtCapacity(reg[name])
    THEN [reg |-> reg, outcome |-> "CapacityExceeded"]
    ELSE [reg |-> WithParticipants(reg, name, Append(Participants(reg, name), email)),
          outcome |-> "Success"]

SerialUnregister(reg, name, email) ==
    IF name \notin DOMAIN reg
    THEN [reg |-> reg, outcome |-> "NotFound"]
    ELSE IF ~Contains(Participants(reg, name), email)
    THEN [reg |-> reg, outcome |-> "NotEnrolled"]
    ELSE [reg |-> WithParticipants(reg, name, RemoveFirst(Participants(reg, name), email)),
          outcome |-> "Success"]

SerialCall(reg, r) ==
    IF r.op = "signup"
    THEN SerialSignup(reg, r.activity_name, r.email)
    ELSE SerialUnregister(reg, r.activity_name, r.email)

\* Running the calls of `order` one at a time from `reg` gives each call the
\* result it returned and ends in the current registry.
RECURSIVE SerialMatches(_, _)
SerialMatches(reg, order) ==
    IF order = <<>>
    THEN reg = activities
    ELSE LET step == SerialCall(reg, req[Head(order)])
         IN  /\ step.outcome = result[Head(order)]
             /\ SerialMatches(step.reg, Tail(order))

Mutations == {c \in Calls : req[c].op \in {"signup", "unregister"}}

Orders(S) ==
    {o \in [1..Cardinality(S) -> S] : \A i, j \in 1..Cardinality(S) : o[i] = o[j] => i = j}

\* C5: linearizability of the store. Whenever no call is running, the results
\* returned so far and the rosters are those of running the same enroll and
\* withdraw calls one at a time in some order.
Linearizable ==
    Quiet => \E order \in Orders(Mutations) : SerialMatches(InitialRegistry, order)

\* This step is flusher t returning from a storage write that raised OSError.
WriteFailsIn(t) == save_pc[t] \in {"open", "dump"} /\ save_pc'[t] = "idle"

\* C6: a failed write keeps the flag. Whenever a flush returns because its
\* storage write failed, the dirty flag is set at that return (stated for the
\* returns that leave the file without the registry's contents, where a clear
\* flag means that no later flush writes them).
FailedWriteKeepsFlag ==
    [][\A t \in Flushers :
          (WriteFailsIn(t) /\ ~Stored(activities)') => activities_dirty']_vars

\* C7: snapshot isolation of the read operation. While a caller holds the
\* value get_activities returned, no step changes the contents of that value.
SnapshotIsolation ==
    [][\A c \in Calls :
          (pc[c] = "g_held" /\ pc'[c] = "g_held") => ReturnedValue(c)' = ReturnedValue(c)]_vars

\* This step is the saver thread entering save_activities_to_disk.
SchedulerBeginsFlush == save_pc[SaveThread] = "idle" /\ save_pc'[SaveThread] = "lock1"

\* C8 as stated: the scheduler never begins a flush once the stop signal is set.
NoSchedulerFlushAfterStop ==
    [][SchedulerBeginsFlush => ~shutdown_event]_vars

\* C8 as amended: whenever the scheduler tests its loop condition or returns
\* from its wait with the stop signal set, it goes to Stopped without calling
\* flush; and its wait ends in a time-out only while the signal is not set.
StopObservedMeansNoFlush ==
    [][/\ (sched_pc \in {"loop", "wait"} /\ shutdown_event /\ sched_pc' # sched_pc)
          => (sched_pc' = "stopped" /\ save_pc'[SaveThread] = "idle")
       /\ (sched_pc = "wait" /\ sched_pc' = "timed_out") => ~shutdown_event
       /\ SchedulerBeginsFlush => sched_pc = "timed_out"]_vars

\* The scheduler has left its wait on the stop signal with a save pending.
StoppedWithoutFlush ==
    /\ sched_pc = "stopped"
    /\ shutdown_event
    /\ activities_dirty
    /\ save_pc[SaveThread] = "idle"
    /\ life_pc = "join"

\* This step is flusher t testing the dirty flag and leaving the locked block.
ChecksFlag(t) == save_pc[t] = "check" /\ save_pc'[t] # "check"

\* Two flushes in a row, and no other flush running: the last four events are
\* a call and its return, then a call and its return.
TwoFlushesInARow ==
    /\ Len(flush_hist) = 4
    /\ flush_hist[1].e = "call" /\ flush_hist[2].e # "call"
    /\ flush_hist[2].t = flush_hist[1].t
    /\ flush_hist[3].e = "call" /\ flush_hist[4].e # "call"
    /\ flush_hist[4].t = flush_hist[3].t
    /\ \A t \in Flushers : save_pc[t] = "idle"

\* C9: flush no-op. A flush that finds the dirty flag clear returns without a
\* storage write and leaves the registry, the file and the flag as they are;
\* and of two flushes in a row with no handler step in between, the first of
\* which wrote the file, the second writes nothing.
FlushNoOp ==
    /\ [][\A t \in Flushers :
             (ChecksFlag(t) /\ ~activities_dirty)
             => /\ save_pc'[t] = "idle"
                /\ UNCHANGED <<activities, disk, activities_dirty>>]_vars
    /\ [](TwoFlushesInARow /\ flush_hist[2].e = "wrote" => flush_hist[4].e = "noop")

\* A flush that wrote the file was followed by a flush that did nothing.
SecondFlushWasNoOp ==
    /\ TwoFlushesInARow
    /\ flush_hist[2].e = "wrote"
    /\ flush_hist[4].e = "noop"

\* Call c has returned and no later call has started.
LatestCall(c) == pc[c] = "done" /\ \A d \in Calls : d > c => pc[d] = "idle"

NewEnroll(c) ==
    /\ LatestCall(c)
    /\ req[c].op = "signup"
    /\ req[c].activity_name \in ActivityNames
    /\ ~Contains(pre[c], req[c].email)

\* C10: sequential enroll against capacity. An enroll of a participant not on
\* the roster, run with no other call, succeeds and appends exactly that
\* participant when the count is below the maximum, fails with
\* CapacityExceeded and leaves the roster as it was when the count equals the
\* maximum, and never fails with CapacityExceeded when there is no maximum.
SequentialEnrollCapacity ==
    \A c \in Calls :
        NewEnroll(c) =>
            LET n == req[c].activity_name
                max == DictGet(activities[n], "max_participants")
                count == Len(pre[c])
            IN  /\ \A m \in max :
                      count < m => /\ result[c] = "Success"
                                   /\ Len(Roster(n)) = count + 1
                                   /\ Roster(n) = Append(pre[c], req[c].email)
                /\ \A m \in max :
                      count = m => /\ result[c] = "CapacityExceeded"
                                   /\ Roster(n) = pre[c]
                /\ max = {} => result[c] # "CapacityExceeded"

\* An enroll into the full activity was refused after earlier enrolls filled it.
RefusedAtCapacity ==
    \E c \in Calls :
        /\ NewEnroll(c)
        /\ req[c].activity_name = "Chess Club"
        /\ Len(pre[c]) = ChessMax
        /\ result[c] = "CapacityExceeded"
        /\ \E d \in Calls : d < c /\ req[d].op = "signup" /\ result[d] = "Success"

\* Calls c and c + 1 are two enrolls of the same participant into the same
\* existing activity, made one after the other; the participant was not on
\* the roster and the activity had room when the first one arrived.
EnrolledTwice(c) ==
    /\ c + 1 \in Calls
    /\ pc[c] = "done"
    /\ LatestCall(c + 1)
    /\ req[c].op = "signup"
    /\ req[c + 1] = req[c]
    /\ req[c].activity_name \in ActivityNames
    /\ ~Contains(pre[c], req[c].email)
    /\ ~AtCapacity([activities[req[c].activity_name] EXCEPT !.participants = pre[c]])

\* C11: enroll is idempotent-rejecting. For an existing activity with room
\* and a participant not on its roster, two enrolls of that participant made
\* one after the other return success and then AlreadyEnrolled; afterwards
\* the roster is the earlier roster with the participant appended at the
\* end, and holds the participant exactly once.
EnrollIdempotentRejecting ==
    \A c \in Calls :
        EnrolledTwice(c) =>
            LET n == req[c].activity_name
            IN  /\ result[c] = "Success"
                /\ result[c + 1] = "AlreadyEnrolled"
                /\ pre[c + 1] = Append(pre[c], req[c].email)
                /\ Roster(n) = Append(pre[c], req[c].email)
                /\ Count(Roster(n), req[c].email) = 1

\* The second of two enrolls into a roster that already had a member was
\* refused as AlreadyEnrolled.
SecondEnrollRefused ==
    \E c \in Calls :
        /\ EnrolledTwice(c)
        /\ Len(pre[c]) >= 1
        /\ result[c + 1] = "AlreadyEnrolled"

\* seq with the entry at position i left out.
Without(seq, i) == SubSeq(seq, 1, i - 1) \o SubSeq(seq, i + 1, Len(seq))

Withdrawal(c) ==
    /\ LatestCall(c)
    /\ req[c].op = "unregister"
    /\ req[c].activity_name \in ActivityNames

\* C12: withdraw, run with no other call. The withdraw of a participant not
\* on the roster of an existing activity fails with NotEnrolled and leaves
\* the roster as it was; the withdraw of an enrolled participant succeeds
\* and removes exactly one entry, that participant's, the other entries
\* keeping their relative order.
SequentialWithdraw ==
    \A c \in Calls :
        Withdrawal(c) =>
            LET n == req[c].activity_name
                e == req[c].email
            IN  IF Contains(pre[c], e)
                THEN /\ result[c] = "Success"
                     /\ \E i \in 1..Len(pre[c]) :
                            /\ pre[c][i] = e
                            /\ Roster(n) = Without(pre[c], i)
                ELSE /\ result[c] = "NotEnrolled"
                     /\ Roster(n) = pre[c]

\* A participant was withdrawn from a roster of two, the other one staying.
WithdrawnFromTwo ==
    \E c \in Calls :
        /\ Withdrawal(c)
        /\ Len(pre[c]) = 2
        /\ Contains(pre[c], req[c].email)
        /\ result[c] = "Success"
        /\ Len(Roster(req[c].activity_name)) = 1

\* The lifespan calls save_activities_to_disk with this step.
FinalFlushBegins == save_pc[MainThread] = "idle" /\ save_pc'[MainThread] # "idle"

FinalFlushReturns == save_pc[MainThread] # "idle" /\ save_pc'[MainThread] = "idle"

ShutdownInOrder ==
    /\ FinalFlushBegins => (shutdown_event /\ life_pc = "call_save" /\ life_pc' = "saving")
    /\ (life_pc = "join" /\ life_pc' # "join") => life_pc' = "call_save"
    /\ (life_pc = "call_save" /\ life_pc' # "call_save") => FinalFlushBegins
    /\ (life_pc = "saving" /\ life_pc' # "saving") => (FinalFlushReturns /\ life_pc' = "exited")
    /\ life_pc = "exited" => (life_pc' = "exited" /\ ~FinalFlushBegins)

\* C13: the final flush always runs, exactly once. The lifespan calls the
\* flush only after it has set the stop signal and its join has returned;
\* the join leads to that call whether the scheduler had stopped or the join
\* timed out; the lifespan ends only by the return of that flush, and calls
\* no second one.
FinalFlushOnce ==
    /\ [][ShutdownInOrder]_vars
    /\ [](life_pc = "join" => ENABLED (LifeJoined \/ LifeJoinTimeout))
    /\ [](life_pc = "call_save" => ENABLED LifeCallSave)
    /\ [](life_pc \in {"startup", "serving", "join", "call_save"} => save_pc[MainThread] = "idle")

\* The final flush is running after a join that timed out: the scheduler is
\* still inside its own flush.
FinalFlushAfterJoinTimeout ==
    /\ life_pc = "saving"
    /\ sched_pc = "saving"
    /\ save_pc[MainThread] # "idle"
    /\ save_pc[SaveThread] # "idle"

\* C14: eventual persistence. Under fair scheduling, as long as the
\* application is not shut down and no storage write fails, from some point
\* on (the requests having come to an end) the storage document equals the
\* registry and the dirty flag is clear.
EventuallyPersisted ==
    <>[](shutdown_event \/ write_failed \/ (Stored(activities) /\ ~activities_dirty))

\* C16: the scheduler terminates. The scheduler thread starts in its loop;
\* under fair scheduling, once the stop signal is set it eventually reaches
\* Stopped; once Stopped it stays Stopped, with no flush of its own running
\* or begun.
SchedulerTerminates ==
    /\ shutdown_event ~> (sched_pc = "stopped")
    /\ [][sched_pc = "not_started" => sched_pc' \in {"not_started", "loop"}]_vars
    /\ [][sched_pc = "stopped" =>
            (sched_pc' = "stopped" /\ save_pc'[SaveThread] = "idle")]_vars
    /\ [](sched_pc = "stopped" => save_pc[SaveThread] = "idle")

\* The scheduler has stopped after finishing a flush that was under way when
\* the stop signal was set.
StoppedAfterFlush ==
    /\ sched_pc = "stopped"
    /\ shutdown_event
    /\ \E i \in 1..Len(flush_hist) :
          flush_hist[i].t = SaveThread /\ flush_hist[i].e = "wrote"

\* Flusher t has activities.json open for writing (lines 51-53).
Writing(t) == save_pc[t] = "dump"

\* C15: no racing writers. At no time do two flushes have the storage file
\* open for writing at once, the scheduler's and the lifespan's final one
\* included.
NoRacingWriters == Cardinality({t \in Flushers : Writing(t)}) <= 1

Outcomes(op) ==
    CASE op = "signup" -> {"Success", "NotFound", "AlreadyEnrolled", "CapacityExceeded"}
      [] op = "unregister" -> {"Success", "NotFound", "NotEnrolled"}
      [] OTHER -> {"Success"}

\* C17: every call completes with a defined outcome. Under any interleaving
\* a call that has ended has ended with one of the outcomes defined for its
\* operation, never with an unhandled error.
DefinedOutcome ==
    \A c \in Calls : pc[c] = "done" => result[c] \in Outcomes(req[c].op)

Failures == {"NotFound", "AlreadyEnrolled", "CapacityExceeded", "NotEnrolled"}

\* The registry with every roster emptied: the activities and their other fields.
NonRoster(reg) == [n \in DOMAIN reg |-> [reg[n] EXCEPT !.participants = <<>>]]

\* What a step of enroll or withdraw call c may change.
FrameOfCall(c) ==
    (pc'[c] # pc[c] /\ req'[c].op \in {"signup", "unregister"}) =>
        /\ NonRoster(activities') = NonRoster(activities)
        /\ \A n \in ActivityNames :
              n # req'[c].activity_name => activities'[n] = activities[n]
        /\ pc'[c] \in {"s_dup", "s_cap", "s_append", "u_in", "u_remove"} =>
              UNCHANGED <<activities, activities_dirty>>
        /\ result'[c] \in Failures =>
              /\ pc[c] \in {"idle", "s_dup", "s_cap", "u_in"}
              /\ UNCHANGED <<activities, activities_dirty>>
        /\ result'[c] = "Success" => activities_dirty'

\* C18: failures change nothing, successes mark dirty. A call that fails
\* with NotFound, AlreadyEnrolled, CapacityExceeded or NotEnrolled has
\* changed no roster and not the dirty flag in any of its steps, and the
\* roster it named is as it was when the call arrived; a call that returns
\* success has the dirty flag set when it returns; no step of a call changes
\* another activity's roster or any field other than a roster.
FailuresChangeNothing ==
    /\ [][\A c \in Calls : FrameOfCall(c)]_vars
    /\ [](\A c \in Calls :
            (/\ LatestCall(c)
             /\ result[c] \in Failures
             /\ req[c].activity_name \in ActivityNames)
                => Roster(req[c].activity_name) = pre[c])

\* An enroll was refused for capacity after a successful one: the flag is
\* set by the first, the other activity is as it was at the start.
RefusedAfterSuccess ==
    \E c, d \in Calls :
        /\ c < d
        /\ result[c] = "Success"
        /\ LatestCall(d)
        /\ result[d] = "CapacityExceeded"
        /\ activities_dirty
        /\ activities["Art Club"] = InitialRegistry["Art Club"]

\* The threads inside a `with activities_lock:` block.
HoldingHandlers == {c \in Calls : pc[c] = "m_set"}

HoldingFlushers == {t \in Flushers : save_pc[t] \in {"check", "copy", "clear"}}

Holders == Cardinality(HoldingHandlers) + Cardinality(HoldingFlushers)

\* C19: no I/O under the lock. The lock is held exactly while one thread is
\* inside a `with activities_lock:` block: a handler marking the registry
\* dirty, or a flush checking the flag and copying, or clearing the flag. A
\* flush that is opening or writing the file is not among them, so while it
\* writes the lock is free unless another thread holds it, and a handler
\* waiting to mark the registry dirty can go on.
NoIOUnderLock ==
    /\ Holders = (IF activities_lock THEN 1 ELSE 0)
    /\ \A t \in Flushers, c \in Calls :
          (save_pc[t] \in {"open", "dump"} /\ pc[c] = "m_lock" /\ Holders = 0)
              => ENABLED MarkDirtyAcquire(c)

\* While the scheduler's flush is writing the file, the final flush has
\* taken the lock and is copying the registry.
LockTakenDuringWrite ==
    /\ Writing(SaveThread)
    /\ save_pc[MainThread] = "copy"
    /\ activities_lock

\* Flusher t ends its deepcopy with this step: what it holds is what it writes.
TakesSnapshot(t) == save_pc[t] = "copy" /\ save_pc'[t] = "open"

\* C20: lossless round trip. The copy a flush ends up with, which is the
\* document it then writes, equals the registry as it stood at some instant
\* of that copy: each roster in it is a roster the registry held then, in
\* the order of the enrolls applied and without the withdrawn participants.
SnapshotIsSomeRegistry ==
    [][\A t \in Flushers : TakesSnapshot(t) => snapshot[t] \in copy_seen[t]]_vars
====
